---- MODULE Spec2Model ----
(***************************************************************************)
(* exhaustiveAdditionalTypenamesExchange: the AdditionalTypenamesDetector  *)
(* walks an operation's selection tree against a schema and adds the       *)
(* element type name of every list field to context.additionalTypenames.   *)
(*                                                                         *)
(* The recursion exploreSelections -> exploreField / exploreFragmentSpread *)
(* / exploreInlineFragment is modelled as a call stack: one frame per      *)
(* `for (const s of ...selections)` loop that is running, one action per   *)
(* call of exploreSelections.                                              *)
(***************************************************************************)
EXTENDS Naturals, Sequences, FiniteSets, TLC

VARIABLES
    schema,               \* the exchange's schema (buildClientSchema result)
    operation,            \* the operation handed to getContext
    additionalTypenames,  \* detector.additionalTypenames, a Set in insertion order
    stack,                \* the running selection loops, innermost last
    status,               \* idle | running | done | threw
    republished,          \* context.additionalTypenames returned by getContext
    discovered,           \* history: every name passed to Set.add by this call
    origin                \* history: first | later | reexecuted

vars == <<schema, operation, additionalTypenames, stack, status, republished,
          discovered, origin>>

Undefined == "undefined"

\* How many selection loops may be running, one inside the other, before the
\* engine throws RangeError (Maximum call stack size exceeded).
MaxCallStack == 8

----------------------------------------------------------------------------
(* The schema of the test suite, as graphql-js type objects.               *)

GraphQLNamed(n) == [kind |-> "Named", name |-> n]
GraphQLList(t) == [kind |-> "List", ofType |-> t]
GraphQLNonNull(t) == [kind |-> "NonNull", ofType |-> t]

UndefinedType == [kind |-> "undefined", name |-> Undefined]

GraphQLScalarType(n) ==
    [kind |-> "Scalar", name |-> n, fields |-> [f \in {} |-> Undefined]]
GraphQLObjectType(n, fs) == [kind |-> "Object", name |-> n, fields |-> fs]
GraphQLInterfaceType(n, fs) == [kind |-> "Interface", name |-> n, fields |-> fs]

RequiredScalar(n) == GraphQLNonNull(GraphQLNamed(n))
RequiredListOf(n) ==
    GraphQLNonNull(GraphQLList(GraphQLNonNull(GraphQLNamed(n))))

sdlString ==
    [n \in {"Node", "Post", "User", "UserEdge", "UserConnection", "PageInfo",
            "Comment", "PostComment", "Query", "ID", "String", "Int",
            "Boolean"} |->
        CASE n = "Node" ->
               GraphQLInterfaceType(n, [f \in {"id"} |-> RequiredScalar("ID")])
          [] n = "Post" ->
               GraphQLObjectType(n,
                 [f \in {"id", "title", "body", "comments"} |->
                    CASE f = "id" -> RequiredScalar("ID")
                      [] f = "comments" -> RequiredListOf("Comment")
                      [] OTHER -> RequiredScalar("String")])
          [] n = "User" ->
               GraphQLObjectType(n,
                 [f \in {"id", "name", "posts"} |->
                    CASE f = "id" -> RequiredScalar("ID")
                      [] f = "posts" -> RequiredListOf("Post")
                      [] OTHER -> RequiredScalar("String")])
          [] n = "UserEdge" ->
               GraphQLObjectType(n,
                 [f \in {"cursor", "node"} |->
                    CASE f = "node" -> GraphQLNamed("User")
                      [] OTHER -> RequiredScalar("String")])
          [] n = "UserConnection" ->
               GraphQLObjectType(n,
                 [f \in {"edges", "nodes", "pageInfo", "totalCount"} |->
                    CASE f = "edges" -> RequiredListOf("UserEdge")
                      [] f = "nodes" -> RequiredListOf("User")
                      [] f = "pageInfo" -> GraphQLNonNull(GraphQLNamed("PageInfo"))
                      [] OTHER -> RequiredScalar("Int")])
          [] n = "PageInfo" ->
               GraphQLObjectType(n,
                 [f \in {"endCursor", "hasNextPage", "hasPreviousPage",
                         "startCursor"} |->
                    CASE f \in {"endCursor", "startCursor"} -> GraphQLNamed("String")
                      [] OTHER -> RequiredScalar("Boolean")])
          [] n = "Comment" ->
               GraphQLInterfaceType(n,
                 [f \in {"body", "likedBy"} |->
                    CASE f = "likedBy" -> RequiredListOf("User")
                      [] OTHER -> RequiredScalar("String")])
          [] n = "PostComment" ->
               GraphQLObjectType(n,
                 [f \in {"id", "title", "body", "likedBy"} |->
                    CASE f = "id" -> RequiredScalar("ID")
                      [] f = "likedBy" -> RequiredListOf("User")
                      [] OTHER -> RequiredScalar("String")])
          [] n = "Query" ->
               GraphQLObjectType(n,
                 [f \in {"nodes", "node", "users", "nullableUsers",
                         "userConnection"} |->
                    CASE f = "nodes" -> RequiredListOf("Node")
                      [] f = "node" -> GraphQLNamed("Node")
                      [] f = "users" -> RequiredListOf("User")
                      [] f = "nullableUsers" -> GraphQLList(GraphQLNamed("User"))
                      [] OTHER -> GraphQLNonNull(GraphQLNamed("UserConnection"))])
          [] OTHER -> GraphQLScalarType(n)]

\* buildClientSchema: the schema's types (each the type object sdlString gives
\* its name), and the root query type when the introspection payload names one.
buildClientSchema(queryTypeName) ==
    [queryType |-> queryTypeName, types |-> DOMAIN sdlString]

Schemas == {buildClientSchema("Query"), buildClientSchema(Undefined)}

\* schema.getType(name)
getType(s, name) ==
    IF name \in s.types THEN sdlString[name] ELSE UndefinedType

\* schema.getQueryType()
getQueryType(s) == getType(s, s.queryType)

----------------------------------------------------------------------------
(* Type introspection helpers.                                             *)

isTypeWithFields(type) == type.kind \in {"Object", "Interface"}

RECURSIVE isListType(_)
isListType(type) ==
    IF type.kind = "NonNull" THEN isListType(type.ofType)
    ELSE type.kind = "List"

RECURSIVE getNamedType(_)
getNamedType(type) ==
    IF type.kind \in {"NonNull", "List"} THEN getNamedType(type.ofType)
    ELSE type

\* The `type is GraphQLList` narrowing of isListType: field.type.ofType.
ofType(type) == type.ofType

\* parentType.getFields()[fieldName]
getField(parentType, fieldName) ==
    IF fieldName \in DOMAIN parentType.fields
    THEN [name |-> fieldName, type |-> parentType.fields[fieldName]]
    ELSE [name |-> Undefined, type |-> UndefinedType]

----------------------------------------------------------------------------
(* JavaScript Set, kept as the sequence of its elements in insertion order. *)

\* A faulty variant: an array push instead of Set.add.
SetAddRepeating(set, x) == Append(set, x)

RECURSIVE SetFrom(_)
SetAdd(set, x) ==
    IF \E i \in 1..Len(set) : set[i] = x THEN set ELSE Append(set, x)

\* new Set(iterable)
SetFrom(iterable) ==
    IF iterable = <<>> THEN <<>>
    ELSE SetAdd(SetFrom(SubSeq(iterable, 1, Len(iterable) - 1)),
                iterable[Len(iterable)])

----------------------------------------------------------------------------
(* Query documents: the AST of graphql's parser.                           *)

Field(name, selections) ==
    [kind |-> "Field", name |-> name, typeCondition |-> Undefined,
     selections |-> selections]
FragmentSpread(name) ==
    [kind |-> "FragmentSpread", name |-> name, typeCondition |-> Undefined,
     selections |-> <<>>]
InlineFragment(typeCondition, selections) ==
    [kind |-> "InlineFragment", name |-> Undefined,
     typeCondition |-> typeCondition, selections |-> selections]
OperationDefinition(selections) ==
    [kind |-> "OperationDefinition", name |-> "sampleQuery",
     typeCondition |-> Undefined, selections |-> selections]
FragmentDefinition(name, typeCondition, selections) ==
    [kind |-> "FragmentDefinition", name |-> name,
     typeCondition |-> typeCondition, selections |-> selections]

Operation(definitions, hints) ==
    [query |-> [definitions |-> definitions],
     context |-> [additionalTypenames |-> hints]]

\* Selections the documents are built from.
FieldNames == {"users", "nodes", "node", "posts", "name", "bogus"}
TypeConditions == {"User", "Node", "Ghost", "String", Undefined}
FragmentNames == {"A", "B", "X"}

Leaves ==
    {Field(n, <<>>) : n \in FieldNames} \cup {FragmentSpread(n) : n \in FragmentNames}

Around(children) ==
    {Field(n, <<c>>) : n \in FieldNames, c \in children}
      \cup {InlineFragment(t, <<c>>) : t \in TypeConditions, c \in children}

Nested == Around(Leaves)
DeeplyNested == Around(Nested)
\* Four levels, under the root fields and narrowings that reach that deep.
DeepestNested ==
    {Field(n, <<InlineFragment(t, <<c>>)>>) :
        n \in {"users", "nodes", "node"}, t \in {"User", "Node", Undefined},
        c \in Nested}

RootSelectionSets ==
    {<<s>> : s \in Leaves \cup Nested \cup DeeplyNested \cup DeepestNested}

\* The fragment definitions a document carries.
FragmentSets ==
    { <<>>,
      \* the test suite's UserFragment and NodeFragment
      << FragmentDefinition("A", "User",
            <<Field("name", <<>>), Field("posts", <<Field("title", <<>>)>>)>>),
         FragmentDefinition("B", "Node",
            <<InlineFragment("User", <<Field("name", <<>>)>>),
              InlineFragment("Post", <<Field("body", <<>>)>>)>>) >>,
      \* a fragment spreading another one
      << FragmentDefinition("A", "Node", <<FragmentSpread("B")>>),
         FragmentDefinition("B", "User",
            <<InlineFragment("User", <<Field("posts", <<>>)>>)>>) >>,
      \* type conditions that are missing from the schema, or fieldless
      << FragmentDefinition("A", "Ghost", <<Field("users", <<>>)>>),
         FragmentDefinition("B", "String",
            <<InlineFragment("User", <<Field("posts", <<>>)>>)>>) >>,
      \* a fragment spreading itself, and one reaching it
      << FragmentDefinition("A", "User",
            <<Field("posts", <<>>), FragmentSpread("A")>>),
         FragmentDefinition("B", "Node", <<FragmentSpread("A")>>) >>,
      \* two fragments spreading each other
      << FragmentDefinition("A", "User", <<FragmentSpread("B")>>),
         FragmentDefinition("B", "User", <<FragmentSpread("A")>>) >> }

RECURSIVE UsesFragments(_)
UsesFragments(selections) ==
    \E i \in 1..Len(selections) :
        \/ selections[i].kind = "FragmentSpread"
        \/ UsesFragments(selections[i].selections)

\* The documents of the test suite that the generated ones do not cover.
TestDocuments ==
    { <<OperationDefinition(
          <<Field("nullableUsers",
               <<Field("name", <<>>), Field("posts", <<Field("title", <<>>)>>)>>),
            Field("users", <<Field("name", <<>>)>>)>>)>>,
      <<OperationDefinition(
          <<Field("userConnection",
               <<Field("edges", <<Field("node", <<Field("name", <<>>)>>)>>),
                 Field("nodes", <<Field("name", <<>>)>>)>>)>>)>>,
      <<OperationDefinition(
          <<Field("nodes",
               <<InlineFragment("User", <<Field("name", <<>>)>>),
                 InlineFragment("Post", <<Field("body", <<>>)>>)>>)>>)>>,
      <<FragmentDefinition("PostFragment", "Post",
          <<Field("comments", <<Field("likedBy", <<Field("name", <<>>)>>)>>)>>),
        OperationDefinition(
          <<Field("node",
               <<InlineFragment("Post", <<FragmentSpread("PostFragment")>>)>>)>>)>>,
      \* two operations in one document
      <<OperationDefinition(<<Field("users", <<Field("posts", <<>>)>>)>>),
        OperationDefinition(<<Field("nodes", <<>>), Field("users", <<>>)>>)>> }

DocumentsWith(fragments) ==
    {fragments \o <<OperationDefinition(ss)>> :
        ss \in {r \in RootSelectionSets : fragments = <<>> \/ UsesFragments(r)}}

\* Selections the traversal prunes, each followed by siblings.
PrunedDocuments ==
    { <<OperationDefinition(
          <<Field("bogus", <<Field("users", <<>>)>>),
            InlineFragment(Undefined, <<Field("nodes", <<>>)>>),
            FragmentSpread("X"),
            Field("users",
               <<Field("name", <<Field("posts", <<>>)>>),
                 InlineFragment("Ghost", <<Field("posts", <<>>)>>),
                 InlineFragment("String", <<Field("posts", <<>>)>>),
                 Field("posts", <<>>)>>)>>)>>,
      <<FragmentDefinition("A", "Ghost", <<Field("users", <<>>)>>),
        FragmentDefinition("B", "ID", <<Field("users", <<>>)>>),
        OperationDefinition(
          <<FragmentSpread("A"), FragmentSpread("B"),
            Field("nodes", <<FragmentSpread("A"), InlineFragment("Post", <<Field("comments", <<>>)>>)>>)>>)>> }

Documents ==
    UNION {DocumentsWith(fragments) : fragments \in FragmentSets}
      \cup TestDocuments \cup PrunedDocuments

\* context.additionalTypenames as the caller supplies it.
Hints == {<<>>, <<"Post", "User">>, <<"Node">>}

Operations == {Operation(d, h) : d \in Documents, h \in Hints}

----------------------------------------------------------------------------
(* AdditionalTypenamesDetector.  Each explore function is given by what one *)
(* call of it does itself: the names it adds to the Set (`add`) and the     *)
(* selection loop it then runs (`selections`, explored with `parentType`    *)
(* and `isList`).  An early return adds nothing and runs no loop.           *)

Returned ==
    [add |-> <<>>, selections |-> <<>>, parentType |-> Undefined, isList |-> FALSE]

\* A faulty variant: the Set is kept from the detector of the previous call.
AdditionalTypenamesDetectorKeepingSet(this, op) ==
    SetFrom(this \o op.context.additionalTypenames)

\* constructor: this.additionalTypenames = new Set(operation.context.additionalTypenames)
AdditionalTypenamesDetector(this, op) == SetFrom(op.context.additionalTypenames)

addListFieldToAdditionalTypenames(field) ==
    IF ~isListType(field.type) THEN <<>>
    ELSE <<getNamedType(ofType(field.type)).name>>

\* A faulty variant: the first fragment definition of the document, whatever its name.
resolveFirstFragment(definitions, fragmentName) ==
    LET fragments ==
            {i \in 1..Len(definitions) : definitions[i].kind = "FragmentDefinition"}
    IN  IF fragments = {} THEN FragmentDefinition(Undefined, Undefined, <<>>)
        ELSE definitions[CHOOSE i \in fragments : \A j \in fragments : i <= j]

resolveFragment(definitions, fragmentName) ==
    LET fragments ==
            {i \in 1..Len(definitions) :
                /\ definitions[i].kind = "FragmentDefinition"
                /\ definitions[i].name = fragmentName}
    IN  \* new Map(entries): the last entry of a key is the one kept
        IF fragments = {} THEN FragmentDefinition(Undefined, Undefined, <<>>)
        ELSE definitions[CHOOSE i \in fragments : \A j \in fragments : j <= i]

exploreField(s, fieldNode, parentType) ==
    IF ~isTypeWithFields(getType(s, parentType)) THEN Returned
    ELSE
      LET field == getField(getType(s, parentType), fieldNode.name) IN
      IF field.name = Undefined THEN Returned
      ELSE
        LET fieldType == getType(s, getNamedType(field.type).name) IN
        [add |-> IF fieldType.kind # "Interface"
                 THEN addListFieldToAdditionalTypenames(field) ELSE <<>>,
         selections |-> fieldNode.selections,
         parentType |-> fieldType.name,
         isList |-> isListType(field.type)]

exploreFragmentSpread(s, definitions, fragmentSpreadNode, isList) ==
    LET foundFragment == resolveFragment(definitions, fragmentSpreadNode.name) IN
    IF foundFragment.name = Undefined THEN Returned
    ELSE
      LET fragmentOnType == getType(s, foundFragment.typeCondition) IN
      IF ~isTypeWithFields(fragmentOnType) THEN Returned
      ELSE [add |-> <<>>,
            selections |-> foundFragment.selections,
            parentType |-> fragmentOnType.name,
            isList |-> isList]

\* A faulty variant: no isTypeWithFields check of the type condition.
exploreInlineFragmentUnchecked(s, inlineFragmentNode, isList) ==
    IF inlineFragmentNode.typeCondition = Undefined THEN Returned
    ELSE
      LET fieldType == getType(s, inlineFragmentNode.typeCondition) IN
      [add |-> IF isList THEN <<fieldType.name>> ELSE <<>>,
       selections |-> inlineFragmentNode.selections,
       parentType |-> fieldType.name,
       isList |-> FALSE]

\* A faulty variant: isList is handed on to the inline fragment's own selections.
exploreInlineFragmentKeepingIsList(s, inlineFragmentNode, isList) ==
    IF inlineFragmentNode.typeCondition = Undefined THEN Returned
    ELSE
      LET fieldType == getType(s, inlineFragmentNode.typeCondition) IN
      IF ~isTypeWithFields(fieldType) THEN Returned
      ELSE [add |-> IF isList THEN <<fieldType.name>> ELSE <<>>,
            selections |-> inlineFragmentNode.selections,
            parentType |-> fieldType.name,
            isList |-> isList]

exploreInlineFragment(s, inlineFragmentNode, isList) ==
    IF inlineFragmentNode.typeCondition = Undefined THEN Returned
    ELSE
      LET fieldType == getType(s, inlineFragmentNode.typeCondition) IN
      IF ~isTypeWithFields(fieldType) THEN Returned
      ELSE [add |-> IF isList THEN <<fieldType.name>> ELSE <<>>,
            selections |-> inlineFragmentNode.selections,
            parentType |-> fieldType.name,
            isList |-> FALSE]

exploreSelections(s, definitions, selectionNode, parentType, isList) ==
    CASE selectionNode.kind = "Field" ->
           exploreField(s, selectionNode, parentType)
      [] selectionNode.kind = "FragmentSpread" ->
           exploreFragmentSpread(s, definitions, selectionNode, isList)
      [] selectionNode.kind = "InlineFragment" ->
           exploreInlineFragment(s, selectionNode, isList)

\* this.additionalTypenames.add(name), for each name a call adds
RECURSIVE AddAll(_, _)
AddAll(set, names) ==
    IF names = <<>> THEN set ELSE AddAll(SetAdd(set, Head(names)), Tail(names))

\* getAdditionalTypenames' two loops: the selections of every operation
\* definition, in document order.
RECURSIVE OperationSelections(_)
OperationSelections(definitions) ==
    IF definitions = <<>> THEN <<>>
    ELSE (IF Head(definitions).kind = "OperationDefinition"
          THEN Head(definitions).selections ELSE <<>>)
            \o OperationSelections(Tail(definitions))

\* The detection of one operation on its own, by the recursion of the source:
\* the loop over `selections`, each explored to the end before the next.
RECURSIVE Traverse(_, _, _, _, _, _)
Traverse(s, definitions, selections, parentType, isList, set) ==
    IF selections = <<>> THEN set
    ELSE
      LET call == exploreSelections(s, definitions, Head(selections),
                                    parentType, isList)
      IN  Traverse(s, definitions, Tail(selections), parentType, isList,
                   Traverse(s, definitions, call.selections, call.parentType,
                            call.isList, AddAll(set, call.add)))

getAdditionalTypenames(s, op) ==
    IF getQueryType(s).kind = "undefined" THEN <<>>
    ELSE Traverse(s, op.query.definitions,
                  OperationSelections(op.query.definitions),
                  getQueryType(s).name, FALSE,
                  SetFrom(op.context.additionalTypenames))

----------------------------------------------------------------------------
(* The call stack.                                                         *)

Frame(selections, parentType, isList) ==
    [selections |-> selections, parentType |-> parentType, isList |-> isList]

Top(st) == st[Len(st)]

\* The call on the current selection returns: its loop goes on with the next
\* selection, and a loop that has none left returns to the one that called it.
RECURSIVE Return(_)
Return(st) ==
    LET rest == Tail(Top(st).selections) IN
    IF rest # <<>>
    THEN [st EXCEPT ![Len(st)].selections = rest]
    ELSE IF Len(st) = 1 THEN <<>> ELSE Return(SubSeq(st, 1, Len(st) - 1))

\* A call with a loop to run pushes it; one without returns at once.
Call(st, call) ==
    IF call.selections = <<>> THEN Return(st)
    ELSE Append(st, Frame(call.selections, call.parentType, call.isList))

CurrentFrame == Top(stack)
CurrentSelection == Head(CurrentFrame.selections)
CurrentCall ==
    exploreSelections(schema, operation.query.definitions, CurrentSelection,
                      CurrentFrame.parentType, CurrentFrame.isList)

\* Array.from(this.additionalTypenames)
ArrayFrom(set) == set

Proceed(set, st) ==
    /\ additionalTypenames' = set
    /\ IF Len(st) > MaxCallStack
       THEN \* RangeError: Maximum call stack size exceeded
            /\ status' = "threw"
            /\ stack' = <<>>
            /\ republished' = republished
       ELSE IF st = <<>>
       THEN /\ status' = "done"
            /\ stack' = <<>>
            /\ republished' = ArrayFrom(set)
       ELSE /\ status' = "running"
            /\ stack' = st
            /\ republished' = republished

Explore(kind) ==
    /\ status = "running"
    /\ CurrentSelection.kind = kind
    /\ Proceed(AddAll(additionalTypenames, CurrentCall.add), Call(stack, CurrentCall))
    /\ discovered' = discovered \o CurrentCall.add
    /\ UNCHANGED <<schema, operation, origin>>

ExploreField ==
    /\ stack # <<>>
    /\ Explore("Field")

ExploreFragmentSpread ==
    /\ stack # <<>>
    /\ Explore("FragmentSpread")

ExploreInlineFragment ==
    /\ stack # <<>>
    /\ Explore("InlineFragment")

\* getContext: (operation) => { detector = new ...; detector.getAdditionalTypenames() ... }
GetContext(op, how) ==
    /\ operation' = op
    /\ origin' = how
    /\ discovered' = <<>>
    /\ schema' = schema
    /\ LET set == AdditionalTypenamesDetector(additionalTypenames, op)
           queryType == getQueryType(schema)
           selections == OperationSelections(op.query.definitions)
       IN  IF queryType.kind = "undefined"
           THEN \* if (!queryType) return []
                /\ additionalTypenames' = set
                /\ status' = "done"
                /\ stack' = <<>>
                /\ republished' = <<>>
           ELSE IF selections = <<>>
           THEN /\ additionalTypenames' = set
                /\ status' = "done"
                /\ stack' = <<>>
                /\ republished' = ArrayFrom(set)
           ELSE /\ additionalTypenames' = set
                /\ status' = "running"
                /\ stack' = <<Frame(selections, queryType.name, FALSE)>>
                /\ republished' = <<>>

NoOperation == Operation(<<>>, <<>>)

\* An operation of the caller's passes through the exchange.
NewOperation ==
    /\ status = "idle"
    /\ \E op \in Operations : GetContext(op, origin)

\* The operation passes through the exchange again, with the context the
\* exchange republished for it.
Reexecute ==
    /\ status = "done"
    /\ GetContext([operation EXCEPT !.context.additionalTypenames = republished],
                  "reexecuted")

\* contextExchange forwards the operation (or the error propagates) and the
\* exchange waits for the next one.  The detector of the call is garbage.
Forward ==
    /\ status \in {"done", "threw"}
    /\ status' = "idle"
    /\ operation' = NoOperation
    /\ republished' = <<>>
    /\ discovered' = <<>>
    /\ origin' = "later"
    /\ UNCHANGED <<schema, additionalTypenames, stack>>

Init ==
    /\ schema \in Schemas
    /\ operation = NoOperation
    /\ additionalTypenames = <<>>
    /\ stack = <<>>
    /\ status = "idle"
    /\ republished = <<>>
    /\ discovered = <<>>
    /\ origin = "first"

Next ==
    \/ NewOperation
    \/ Reexecute
    \/ Forward
    \/ ExploreField
    \/ ExploreFragmentSpread
    \/ ExploreInlineFragment

Spec == Init /\ [][Next]_vars

----------------------------------------------------------------------------
(* What the claims speak of, read off the document and the schema.         *)

Names(seq) == {seq[i] : i \in 1..Len(seq)}

Hinted == operation.context.additionalTypenames
Definitions == operation.query.definitions
HasQueryType == schema.queryType # Undefined

\* An object or interface type of the schema.
Selectable(typeName) ==
    /\ typeName \in schema.types
    /\ sdlString[typeName].kind \in {"Object", "Interface"}

Defines(typeName, fieldName) ==
    /\ Selectable(typeName)
    /\ fieldName \in DOMAIN sdlString[typeName].fields

RECURSIVE WithoutNonNull(_)
WithoutNonNull(type) ==
    IF type.kind = "NonNull" THEN WithoutNonNull(type.ofType) ELSE type

RECURSIVE ElementOf(_)
ElementOf(type) == IF type.kind = "Named" THEN type.name ELSE ElementOf(type.ofType)

DeclaredType(typeName, fieldName) == sdlString[typeName].fields[fieldName]
IsListField(typeName, fieldName) ==
    WithoutNonNull(DeclaredType(typeName, fieldName)).kind = "List"
IsInterface(typeName) ==
    /\ typeName \in schema.types
    /\ sdlString[typeName].kind = "Interface"

FragmentsNamed(name) ==
    {Definitions[i] : i \in {j \in 1..Len(Definitions) :
        /\ Definitions[j].kind = "FragmentDefinition"
        /\ Definitions[j].name = name}}

\* The types named directly under a field: by an inline fragment's type
\* condition, or by the type condition of a spread fragment.
NarrowedUnder(fieldNode) ==
    {t \in UNION {
        IF fieldNode.selections[i].kind = "InlineFragment"
        THEN {fieldNode.selections[i].typeCondition}
        ELSE IF fieldNode.selections[i].kind = "FragmentSpread"
        THEN {f.typeCondition : f \in FragmentsNamed(fieldNode.selections[i].name)}
        ELSE {} : i \in 1..Len(fieldNode.selections)} : Selectable(t)}

\* The list fields selected in `selections` on `parentType`, at any depth:
\* under fields, in the fragments that spreads resolve to, in inline
\* fragments.  With `anywhere`, an inline fragment without a type condition
\* is looked into as well (it narrows nothing: its fields are the parent's).
RECURSIVE ListFields(_, _, _, _)
RECURSIVE ListFieldsAt(_, _, _, _)
ListFields(selections, parentType, anywhere, expanding) ==
    UNION {ListFieldsAt(selections[i], parentType, anywhere, expanding) :
             i \in 1..Len(selections)}

ListFieldsAt(node, parentType, anywhere, expanding) ==
    CASE node.kind = "Field" ->
           IF ~Defines(parentType, node.name) THEN {}
           ELSE
             LET element == ElementOf(DeclaredType(parentType, node.name)) IN
             (IF IsListField(parentType, node.name)
              THEN {[element |-> element, narrowed |-> NarrowedUnder(node)]}
              ELSE {})
               \cup ListFields(node.selections, element, anywhere, expanding)
      [] node.kind = "FragmentSpread" ->
           IF node.name \in expanding THEN {}
           ELSE UNION {
                  IF Selectable(f.typeCondition)
                  THEN ListFields(f.selections, f.typeCondition, anywhere,
                                  expanding \cup {node.name})
                  ELSE {} : f \in FragmentsNamed(node.name)}
      [] node.kind = "InlineFragment" ->
           IF node.typeCondition = Undefined
           THEN IF anywhere
                THEN ListFields(node.selections, parentType, anywhere, expanding)
                ELSE {}
           ELSE IF Selectable(node.typeCondition)
           THEN ListFields(node.selections, node.typeCondition, anywhere, expanding)
           ELSE {}

SelectedListFields(anywhere) ==
    ListFields(OperationSelections(Definitions), schema.queryType, anywhere, {})

\* A sequence without its repeats: each value where it first occurs.
RECURSIVE FirstOccurrences(_)
FirstOccurrences(seq) ==
    IF seq = <<>> THEN <<>>
    ELSE LET front == SubSeq(seq, 1, Len(seq) - 1)
             last == seq[Len(seq)]
         IN  IF last \in Names(front) THEN FirstOccurrences(front)
             ELSE Append(FirstOccurrences(front), last)

----------------------------------------------------------------------------
(* C1: when the schema has a query type, the element type name of every    *)
(* list field selected anywhere in the operation (nested, in a spread      *)
(* fragment, in an inline fragment) whose element type is not an interface *)
(* is in the returned sequence.                                            *)
C1_Exhaustive ==
    (status = "done" /\ HasQueryType) =>
        \A f \in SelectedListFields(TRUE) :
            ~IsInterface(f.element) => f.element \in Names(republished)

(* C2: the interface that is the element type of a selected list field is  *)
(* not in the returned sequence unless the caller hinted it.               *)
C2_InterfaceNotRecorded ==
    (status = "done" /\ HasQueryType) =>
        \A f \in SelectedListFields(FALSE) :
            (IsInterface(f.element) /\ f.element \in Names(republished))
                => f.element \in Names(Hinted)

(* C3: every selectable type named directly under a list field of          *)
(* interface element type, by an inline fragment or by the fragment of a   *)
(* spread, is in the returned sequence.                                    *)
C3_NarrowedTypesRecorded ==
    (status = "done" /\ HasQueryType) =>
        \A f \in SelectedListFields(FALSE) :
            IsInterface(f.element) => f.narrowed \subseteq Names(republished)

(* C4: the returned sequence is the caller's hints in their order, then    *)
(* the discovered names in order of first discovery, each name once.       *)
C4_HintsThenDiscoveries ==
    status = "done" => republished = FirstOccurrences(Hinted \o discovered)

(* C5: without a root query type the call returns exactly the caller's     *)
(* hints, and in every case each hint is in the returned sequence.         *)
C5_HintsSurvive ==
    status = "done" =>
        /\ ~HasQueryType => republished = Hinted
        /\ Names(Hinted) \subseteq Names(republished)

----------------------------------------------------------------------------
(* C6: silent pruning.                                                     *)

\* The selections the claim lists: an undefined field or a field of a
\* fieldless parent, a spread that resolves to no fragment or to one whose
\* type condition is missing or fieldless, an inline fragment without a type
\* condition or with one that is missing or fieldless.
Pruned(node, parentType) ==
    CASE node.kind = "Field" -> ~Defines(parentType, node.name)
      [] node.kind = "FragmentSpread" ->
           \A f \in FragmentsNamed(node.name) : ~Selectable(f.typeCondition)
      [] node.kind = "InlineFragment" ->
           node.typeCondition = Undefined \/ ~Selectable(node.typeCondition)

TypeUnder(node, parentType) ==
    IF node.kind = "Field"
    THEN ElementOf(DeclaredType(parentType, node.name))
    ELSE node.typeCondition

\* `selections` with every pruned selection removed, at every depth.
RECURSIVE WithoutPruned(_, _)
WithoutPruned(selections, parentType) ==
    IF selections = <<>> THEN <<>>
    ELSE
      LET node == Head(selections) IN
      (IF Pruned(node, parentType) THEN <<>>
       ELSE IF node.kind = "FragmentSpread" THEN <<node>>
       ELSE <<[node EXCEPT !.selections =
                 WithoutPruned(node.selections, TypeUnder(node, parentType))]>>)
        \o WithoutPruned(Tail(selections), parentType)

\* The operation with the pruned selections removed from its document.
OperationWithoutPruned ==
    [operation EXCEPT !.query.definitions =
        [i \in 1..Len(Definitions) |->
            LET d == Definitions[i] IN
            IF d.kind = "OperationDefinition"
            THEN [d EXCEPT !.selections = WithoutPruned(d.selections, schema.queryType)]
            ELSE IF Selectable(d.typeCondition)
            THEN [d EXCEPT !.selections = WithoutPruned(d.selections, d.typeCondition)]
            ELSE d]]

\* The selections still to explore, in order, each with the parent type and
\* flag it will be explored with.
Items(frame, selections) ==
    [i \in 1..Len(selections) |->
        [node |-> selections[i], parentType |-> frame.parentType,
         isList |-> frame.isList]]

RECURSIVE Waiting(_)
Waiting(st) ==
    IF st = <<>> THEN <<>>
    ELSE Items(Top(st), Tail(Top(st).selections))
           \o Waiting(SubSeq(st, 1, Len(st) - 1))

Pending(st) ==
    IF st = <<>> THEN <<>>
    ELSE Items(Top(st), Top(st).selections) \o Waiting(SubSeq(st, 1, Len(st) - 1))

----------------------------------------------------------------------------
(* C7: the is-list flag rule.                                              *)

\* The selection a running loop was entered from.
Enclosing(st, k) == Head(st[k].selections)

\* The nearest enclosing field is list-typed, and only fragment spreads lie
\* between it and the current selection.
UnderListField(st) ==
    \E k \in 1..(Len(st) - 1) :
        /\ Enclosing(st, k).kind = "Field"
        /\ IsListField(st[k].parentType, Enclosing(st, k).name)
        /\ \A j \in (k + 1)..(Len(st) - 1) : Enclosing(st, j).kind = "FragmentSpread"

(* C7: exploring an inline fragment whose type condition has selectable    *)
(* fields records the type's name if and only if the nearest enclosing     *)
(* field is list-typed with only fragment spreads in between.              *)
C7_IsListRule ==
    [][(/\ status = "running"
        /\ CurrentSelection.kind = "InlineFragment"
        /\ Selectable(CurrentSelection.typeCondition))
          => IF UnderListField(stack)
             THEN /\ discovered' = Append(discovered, CurrentSelection.typeCondition)
                  /\ CurrentSelection.typeCondition \in Names(additionalTypenames')
             ELSE /\ discovered' = discovered
                  /\ additionalTypenames' = additionalTypenames]_vars

\* Inside an inline fragment that was reached through a fragment spread under
\* a list field, its type recorded.
C7_RecordedThroughSpread ==
    /\ status = "running"
    /\ Len(stack) >= 4
    /\ UnderListField(SubSeq(stack, 1, Len(stack) - 1))
    /\ Enclosing(stack, Len(stack) - 1).kind = "InlineFragment"
    /\ Enclosing(stack, Len(stack) - 2).kind = "FragmentSpread"
    /\ Enclosing(stack, Len(stack) - 1).typeCondition \in Names(discovered)

----------------------------------------------------------------------------
(* C8: termination.                                                        *)

RECURSIVE SpreadNames(_)
SpreadNames(selections) ==
    UNION {IF selections[i].kind = "FragmentSpread" THEN {selections[i].name}
           ELSE SpreadNames(selections[i].selections) : i \in 1..Len(selections)}

SpreadBy(name) == UNION {SpreadNames(f.selections) : f \in FragmentsNamed(name)}

RECURSIVE ReachedFrom(_)
ReachedFrom(names) ==
    LET more == names \cup UNION {SpreadBy(n) : n \in names} IN
    IF more = names THEN names ELSE ReachedFrom(more)

\* No fragment of the document spreads itself, directly or through others.
FragmentsAcyclic ==
    \A i \in 1..Len(Definitions) :
        Definitions[i].kind = "FragmentDefinition"
            => Definitions[i].name \notin ReachedFrom(SpreadBy(Definitions[i].name))

(* C8 as stated: every call returns, whatever the document.                *)
C8_AlwaysReturns == status # "threw"

\* The number of exploreSelections calls a selection can give rise to: itself,
\* and what lies under it or in the fragment it spreads.
RECURSIVE Calls(_)
RECURSIVE CallsIn(_)
RECURSIVE CallsInFragments(_, _)
Calls(node) ==
    1 + (IF node.kind = "FragmentSpread"
         THEN CallsInFragments(node.name, Len(Definitions))
         ELSE CallsIn(node.selections))

CallsIn(selections) ==
    IF selections = <<>> THEN 0
    ELSE Calls(Head(selections)) + CallsIn(Tail(selections))

CallsInFragments(name, n) ==
    IF n = 0 THEN 0
    ELSE (IF Definitions[n].kind = "FragmentDefinition" /\ Definitions[n].name = name
          THEN CallsIn(Definitions[n].selections) ELSE 0)
           + CallsInFragments(name, n - 1)

\* The calls the traversal may still make.
RECURSIVE CallsLeft(_)
CallsLeft(pending) ==
    IF pending = <<>> THEN 0
    ELSE Calls(Head(pending).node) + CallsLeft(Tail(pending))

(* C8 amended: a call on a document in which no fragment spreads itself,   *)
(* directly or through other fragments, terminates and returns: it never   *)
(* throws, a running traversal always has a next step, and every step      *)
(* leaves fewer calls to make.                                             *)
C8_ReturnsWhenAcyclic ==
    /\ [](FragmentsAcyclic =>
            /\ status # "threw"
            /\ status = "running" =>
                 ENABLED (ExploreField \/ ExploreFragmentSpread \/ ExploreInlineFragment))
    /\ [][(status = "running" /\ FragmentsAcyclic)
            => /\ status' \in {"running", "done"}
               /\ status' = "done" <=> stack' = <<>>
               /\ CallsLeft(Pending(stack')) < CallsLeft(Pending(stack))]_vars

C8_ReturnedThroughFragments ==
    /\ status = "done"
    /\ FragmentsAcyclic
    /\ \E n \in SpreadNames(OperationSelections(Definitions)) : SpreadBy(n) # {}
    /\ discovered # <<>>

----------------------------------------------------------------------------
(* C9: each operation's returned sequence is the one it gets on its own,   *)
(* whatever passed through the exchange before it; no call changes the     *)
(* schema or the document it works on.                                     *)
C9_Isolation ==
    /\ [](status = "done" => republished = getAdditionalTypenames(schema, operation))
    /\ [][/\ schema' = schema
          /\ status = "running" => operation' = operation]_vars

C9_LaterOperationReturned ==
    /\ status = "done"
    /\ origin = "later"
    /\ HasQueryType
    /\ discovered # <<>>
    /\ Hinted = <<>>

(* C10: an operation that passes again, with the sequence the exchange     *)
(* returned for it as its hints, gets the same sequence back.              *)
C10_Idempotent ==
    (status = "done" /\ origin = "reexecuted") => republished = Hinted

C10_ReexecutedWithDiscoveries ==
    /\ status = "done"
    /\ origin = "reexecuted"
    /\ Len(FirstOccurrences(discovered)) >= 2
    /\ republished = Hinted

====
